---- MODULE Spec2Model ----
(***************************************************************************)
(* Model of src/puzzle.ts: parseInput (a depth-tracking scanner that       *)
(* re-parses each top-level parenthesised group recursively), sortItems    *)
(* (in-place recursive sort by name) and printItems (indented dump).       *)
(*                                                                         *)
(* A text is a sequence of one-character strings.  An Item is a record     *)
(* [leaf, name, children]: a Leaf is the TypeScript string, a Node is the  *)
(* TypeScript object with one key (its name) whose value is the children   *)
(* array.                                                                  *)
(***************************************************************************)
EXTENDS Integers, Sequences, FiniteSets

VARIABLES
    input,    \* the text handed to the top-level parseInput call
    origin,   \* <<F>> when the caller rendered the forest F into input, else <<>>
    stack,    \* call stack of parseInput: one frame per active (recursive) call
    pc,       \* "parse" while parseInput runs, "threw" when it raised a TypeError,
              \* else the last operation that returned: "parsed", "sorted", "printed"
    items,    \* the caller's items array (the value parseInput returned)
    sorts,    \* the number of sortItems calls made on items
    out       \* the lines written by the latest printItems call

vars == <<input, origin, stack, pc, items, sorts, out>>

(***************************************************************************)
(* Bounds of the model.                                                    *)
(***************************************************************************)
MaxLen == 4      \* every text over Alphabet of at most this many characters
MaxItems == 3    \* every forest of at most this many Items (all depths)
MaxSorts == 2    \* sortItems is called at most this many times

(***************************************************************************)
(* Characters.                                                             *)
(***************************************************************************)
WhiteSpace == {" ", "\t", "\n", "\r"}
Delimiters == {",", "(", ")"}
Alphabet == {"a", "b", " ", ",", "(", ")"}

Min(S) == CHOOSE x \in S : \A y \in S : x <= y
Max(S) == CHOOSE x \in S : \A y \in S : x >= y

\* String.prototype.trim
Trim(s) ==
    LET keep == {i \in 1..Len(s) : s[i] \notin WhiteSpace}
    IN  IF keep = {} THEN <<>> ELSE SubSeq(s, Min(keep), Max(keep))

\* buffer.slice(1, -1)
Slice1(s) == IF Len(s) <= 2 THEN <<>> ELSE SubSeq(s, 2, Len(s) - 1)

(***************************************************************************)
(* Items.                                                                  *)
(***************************************************************************)
Leaf(n) == [leaf |-> TRUE, name |-> n, children |-> <<>>]
Node(n, c) == [leaf |-> FALSE, name |-> n, children |-> c]

(***************************************************************************)
(* parseInput: one frame holds the locals of one call.                     *)
(***************************************************************************)
NewFrame(s) == [input |-> s, pos |-> 1, items |-> <<>>, buffer |-> <<>>, depth |-> 0]

\* OnOpen without the trim of line 16
OnOpenNoTrim(f) ==
    LET b == f.buffer
        named == f.depth = 0 /\ b # <<>>
    IN  [f EXCEPT !.items = IF named THEN Append(@, Node(b, <<>>)) ELSE @,
                  !.buffer = (IF named THEN <<>> ELSE b) \o <<"(">>,
                  !.depth = @ + 1,
                  !.pos = @ + 1]

\* OnOpen without the reset of line 20
OnOpenNoReset(f) ==
    LET b == Trim(f.buffer)
        named == f.depth = 0 /\ b # <<>>
    IN  [f EXCEPT !.items = IF named THEN Append(@, Node(b, <<>>)) ELSE @,
                  !.buffer = b \o <<"(">>,
                  !.depth = @ + 1,
                  !.pos = @ + 1]

\* char === '(' : lines 14-23
OnOpen(f) ==
    LET b == Trim(f.buffer)
        named == f.depth = 0 /\ b # <<>>
    IN  [f EXCEPT !.items = IF named THEN Append(@, Node(b, <<>>)) ELSE @,
                  !.buffer = (IF named THEN <<>> ELSE b) \o <<"(">>,
                  !.depth = @ + 1,
                  !.pos = @ + 1]

\* char === ')' : lines 24-27, up to the test of depth
OnClose(f) ==
    [f EXCEPT !.depth = @ - 1,
              !.buffer = @ \o <<")">>,
              !.pos = @ + 1]

\* depth === 0 : line 31
OnGroupEnd(f) == [f EXCEPT !.buffer = Trim(@)]

\* line 33: the argument of the recursive call
CallArg(f) == Slice1(f.buffer)

\* lines 34-35 and 37-38: the assignment lastItem[key] = children succeeds when
\* there is no last item (line 41 runs instead) or the last item is an object;
\* on a string it is a write to the read-only index "0" of a primitive, which
\* raises a TypeError in module (strict) code.
CanAttach(f) == f.items = <<>> \/ ~f.items[Len(f.items)].leaf

\* Attach taking the branch of line 41 whatever the last item is
AttachAsTopLevel(f, children) ==
    [f EXCEPT !.items = children,
              !.buffer = <<>>]

\* lines 34-43, the recursive call having returned children
Attach(f, children) ==
    [f EXCEPT !.items = IF f.items = <<>>
                        THEN children
                        ELSE [@ EXCEPT ![Len(f.items)].children = children],
              !.buffer = <<>>]

\* OnComma without the test of line 48
OnCommaNoTest(f) ==
    LET b == Trim(f.buffer)
    IN  [f EXCEPT !.items = Append(@, Leaf(b)),
                  !.buffer = <<>>,
                  !.pos = @ + 1]

\* char === ',' && depth === 0 : lines 45-51
OnComma(f) ==
    LET b == Trim(f.buffer)
    IN  [f EXCEPT !.items = IF b # <<>> THEN Append(@, Leaf(b)) ELSE @,
                  !.buffer = <<>>,
                  !.pos = @ + 1]

\* any other character : lines 52-55
OnOther(f) ==
    [f EXCEPT !.buffer = Append(@, f.input[f.pos]),
              !.pos = @ + 1]

\* lines 58-64: the value the call returns
Finish(f) ==
    LET b == Trim(f.buffer)
    IN  IF b # <<>> THEN Append(f.items, Leaf(b)) ELSE f.items

AtEnd(f) == f.pos > Len(f.input)
Char(f) == f.input[f.pos]

\* parseInput as a function of its argument: [threw, items]
RECURSIVE Run(_)
Run(f) ==
    IF AtEnd(f) THEN [threw |-> FALSE, items |-> Finish(f)]
    ELSE IF Char(f) = "(" THEN Run(OnOpen(f))
    ELSE IF Char(f) = ")" THEN
        LET g == OnClose(f)
            h == OnGroupEnd(g)
        IN  IF g.depth = 0
            THEN LET r == Run(NewFrame(CallArg(h)))
                 IN  IF r.threw \/ ~CanAttach(h)
                     THEN [threw |-> TRUE, items |-> <<>>]
                     ELSE Run(Attach(h, r.items))
            ELSE Run(g)
    ELSE IF Char(f) = "," /\ f.depth = 0 THEN Run(OnComma(f))
    ELSE Run(OnOther(f))

ParseInput(s) == Run(NewFrame(s))

(***************************************************************************)
(* sortItems.                                                              *)
(***************************************************************************)
Lower == <<"a", "b", "c", "d", "e", "f", "g", "h", "i", "j", "k", "l", "m",
           "n", "o", "p", "q", "r", "s", "t", "u", "v", "w", "x", "y", "z">>
Upper == <<"A", "B", "C", "D", "E", "F", "G", "H", "I", "J", "K", "L", "M",
           "N", "O", "P", "Q", "R", "S", "T", "U", "V", "W", "X", "Y", "Z">>
\* primary order of the characters used: white space, punctuation, digits, letters
Collation == <<"\t", "\n", "\r", " ", ",", "(", ")",
               "0", "1", "2", "3", "4", "5", "6", "7", "8", "9">> \o Lower

IsUpper(c) == \E i \in 1..Len(Upper) : Upper[i] = c
Fold(c) == IF IsUpper(c) THEN Lower[CHOOSE i \in 1..Len(Upper) : Upper[i] = c] ELSE c
Primary(c) == CHOOSE i \in 1..Len(Collation) : Collation[i] = Fold(c)

\* lexicographic comparison of two sequences of numbers: -1, 0 or 1
LexCmp(x, y) ==
    LET n == Min({Len(x), Len(y)})
        d == {i \in 1..n : x[i] # y[i]}
    IN  IF d # {} THEN (IF x[Min(d)] < y[Min(d)] THEN -1 ELSE 1)
        ELSE IF Len(x) < Len(y) THEN -1
        ELSE IF Len(x) > Len(y) THEN 1
        ELSE 0

\* String.prototype.localeCompare: letters compare by primary weight over the
\* whole string first, and by case (lower before upper) only to break a tie
LocaleCompare(a, b) ==
    LET p == LexCmp([i \in 1..Len(a) |-> Primary(a[i])], [i \in 1..Len(b) |-> Primary(b[i])])
    IN  IF p # 0 THEN p
        ELSE LexCmp([i \in 1..Len(a) |-> IF IsUpper(a[i]) THEN 1 ELSE 0],
                    [i \in 1..Len(b) |-> IF IsUpper(b[i]) THEN 1 ELSE 0])

\* the comparator, lines 73-77
Alphabetically(a, b) == LocaleCompare(a.name, b.name)

\* InsertSorted putting an element before the elements it equals
InsertSortedBefore(x, s) ==
    LET after == {i \in 1..Len(s) : Alphabetically(x, s[i]) <= 0}
        k == IF after = {} THEN Len(s) + 1 ELSE Min(after)
    IN  SubSeq(s, 1, k - 1) \o <<x>> \o SubSeq(s, k, Len(s))

\* Array.prototype.sort is stable: an element goes behind the elements it equals
InsertSorted(x, s) ==
    LET after == {i \in 1..Len(s) : Alphabetically(x, s[i]) < 0}
        k == IF after = {} THEN Len(s) + 1 ELSE Min(after)
    IN  SubSeq(s, 1, k - 1) \o <<x>> \o SubSeq(s, k, Len(s))

RECURSIVE ArraySort(_)
ArraySort(s) ==
    IF s = <<>> THEN s
    ELSE InsertSorted(s[Len(s)], ArraySort(SubSeq(s, 1, Len(s) - 1)))

\* SortItems without the loop of lines 81-87
SortItemsTopOnly(its) == ArraySort(its)

\* lines 71-88
RECURSIVE SortItems(_)
SortItems(its) ==
    LET sorted == ArraySort(its)
    IN  [i \in 1..Len(sorted) |->
            IF sorted[i].leaf THEN sorted[i]
            ELSE [sorted[i] EXCEPT !.children = SortItems(@)]]

(***************************************************************************)
(* printItems.                                                             *)
(***************************************************************************)
\* Indentation with a unit of one space
IndentationOne(indent) == [i \in 1..indent |-> " "]

\* '  '.repeat(indent), line 98
Indentation(indent) == [i \in 1..(2 * indent) |-> " "]

\* the line of one item, lines 103 and 107
Line(indent, name) == Indentation(indent) \o <<"-", " ">> \o name

\* lines 95-114: the lines written, in order
RECURSIVE PrintItems(_, _)
PrintItems(its, indent) ==
    IF its = <<>> THEN <<>>
    ELSE LET item == Head(its)
         IN  <<Line(indent, item.name)>>
             \o (IF item.leaf THEN <<>> ELSE PrintItems(item.children, indent + 1))
             \o PrintItems(Tail(its), indent)

(***************************************************************************)
(* Inputs: every text over Alphabet up to MaxLen, the grammar rendering of *)
(* every forest of up to MaxItems Items, and the texts and the forest the  *)
(* documentation and lines 119-120 name.                                   *)
(***************************************************************************)
Texts == UNION {[1..n -> Alphabet] : n \in 0..MaxLen}

Names == {<<"a">>, <<"b", " ", "a">>}

RECURSIVE ForestsOfSize(_), TreesOfSize(_)
TreesOfSize(n) ==
    (IF n = 1 THEN {Leaf(nm) : nm \in Names} ELSE {})
    \cup {Node(nm, c) : nm \in Names, c \in ForestsOfSize(n - 1)}
ForestsOfSize(n) ==
    IF n = 0 THEN {<<>>}
    ELSE UNION { {<<t>> \o f : t \in TreesOfSize(k), f \in ForestsOfSize(n - k)} : k \in 1..n }

Forests == UNION {ForestsOfSize(n) : n \in 0..MaxItems}

\* forest := entry (',' entry)* ; entry := name ('(' forest ')')?
RECURSIVE Render(_)
Render(F) ==
    IF F = <<>> THEN <<>>
    ELSE LET e == Head(F)
             entry == IF e.leaf THEN e.name ELSE e.name \o <<"(">> \o Render(e.children) \o <<")">>
         IN  IF Len(F) = 1 THEN entry ELSE entry \o <<",">> \o Render(Tail(F))

TextABCDE == <<"a", ",", " ", "b", "(", "c", ",", " ", "d", ")", ",", " ", "e">>
TextXYZ == <<"x", "(", "y", "(", "z", ")", ")">>
TextACommaCommaB == <<"a", ",", ",", "b">>
TextLeafThenGroup == <<"a", ",", " ", "(", "b", ")">>
TextNodeLeafGroup == <<"a", "(", "b", ")", ",", " ", "c", ",", " ", "(", "d", ")">>
\* lines 119-120
TextShipped ==
    <<"(", "i", "d", ",", " ", "n", "a", "m", "e", ",", " ", "e", "m", "a", "i", "l", ",", " ", "t", "y", "p", "e", "(", "i", "d", ",", " ", "n", "a", "m", "e", ",", " ">>
    \o <<"c", "u", "s", "t", "o", "m", "F", "i", "e", "l", "d", "s", "(", "c", "1", ",", " ", "c", "2", ",", " ", "c", "3", ")", ")", ",", " ", "e", "x", "t", "e", "r", "n", "a", "l", "I", "d", ")">>
ExampleTexts == {TextABCDE, TextXYZ, TextACommaCommaB, TextLeafThenGroup, TextNodeLeafGroup, TextShipped}

ForestBZA == <<Node(<<"b">>, <<Leaf(<<"z">>), Leaf(<<"a">>)>>), Leaf(<<"a">>)>>

Init ==
    /\ \/ /\ input \in Texts \cup ExampleTexts
          /\ origin = <<>>
       \/ \E F \in Forests \cup {ForestBZA} :
             /\ input = Render(F)
             /\ origin = <<F>>
    /\ stack = <<NewFrame(input)>>
    /\ pc = "parse"
    /\ items = <<>>
    /\ sorts = 0
    /\ out = <<>>

Top == stack[Len(stack)]
SetTop(f) == [stack EXCEPT ![Len(stack)] = f]
Scanning == pc = "parse" /\ ~AtEnd(Top)

ScanOpen ==
    /\ Scanning /\ Char(Top) = "("
    /\ stack' = SetTop(OnOpen(Top))
    /\ UNCHANGED <<input, origin, pc, items, sorts, out>>

ScanClose ==
    /\ Scanning /\ Char(Top) = ")"
    /\ LET g == OnClose(Top)
       IN  stack' = IF g.depth = 0
                    THEN Append(SetTop(OnGroupEnd(g)), NewFrame(CallArg(OnGroupEnd(g))))
                    ELSE SetTop(g)
    /\ UNCHANGED <<input, origin, pc, items, sorts, out>>

ScanComma ==
    /\ Scanning /\ Char(Top) = "," /\ Top.depth = 0
    /\ stack' = SetTop(OnComma(Top))
    /\ UNCHANGED <<input, origin, pc, items, sorts, out>>

ScanOther ==
    /\ Scanning /\ Char(Top) \notin {"(", ")"}
    /\ ~(Char(Top) = "," /\ Top.depth = 0)
    /\ stack' = SetTop(OnOther(Top))
    /\ UNCHANGED <<input, origin, pc, items, sorts, out>>

\* a recursive call returns into line 33 of its caller
Return ==
    /\ pc = "parse" /\ AtEnd(Top) /\ Len(stack) > 1
    /\ LET caller == stack[Len(stack) - 1]
           rest == SubSeq(stack, 1, Len(stack) - 2)
       IN  IF CanAttach(caller)
           THEN /\ stack' = Append(rest, Attach(caller, Finish(Top)))
                /\ pc' = pc
           ELSE /\ stack' = <<>>
                /\ pc' = "threw"
    /\ UNCHANGED <<input, origin, items, sorts, out>>

\* the top-level call returns to line 123
Done ==
    /\ pc = "parse" /\ AtEnd(Top) /\ Len(stack) = 1
    /\ items' = Finish(Top)
    /\ stack' = <<>>
    /\ pc' = "parsed"
    /\ UNCHANGED <<input, origin, sorts, out>>

Returned == pc \in {"parsed", "sorted", "printed"}

\* a call sortItems(items), as on line 135
CallSortItems ==
    /\ Returned /\ sorts < MaxSorts
    /\ items' = SortItems(items)
    /\ sorts' = sorts + 1
    /\ pc' = "sorted"
    /\ UNCHANGED <<input, origin, stack, out>>

\* a call printItems(items), as on lines 131 and 136
CallPrintItems ==
    /\ Returned
    /\ out' = PrintItems(items, 0)
    /\ pc' = "printed"
    /\ UNCHANGED <<input, origin, stack, items, sorts>>

Next == ScanOpen \/ ScanClose \/ ScanComma \/ ScanOther \/ Return \/ Done \/ CallSortItems \/ CallPrintItems

Spec == Init /\ [][Next]_vars

\* a call of parseInput is synchronous: once started it runs on until it returns or throws
ParseStep == ScanOpen \/ ScanClose \/ ScanComma \/ ScanOther \/ Return \/ Done
FairSpec == Spec /\ WF_vars(ParseStep)


(***************************************************************************)
(* Properties.                                                             *)
(***************************************************************************)
\* what the top-level call of parseInput came to
Ended == pc \in {"parsed", "threw"}
Outcome == [threw |-> pc = "threw", items |-> items]

\* the machine and the function ParseInput agree
MachineAgrees == Ended => ParseInput(input) = Outcome

\* number of '(' minus number of ')' among the first j characters of s
Nesting(s, j) ==
    Cardinality({i \in 1..j : s[i] = "("}) - Cardinality({i \in 1..j : s[i] = ")"})
WellNested(s) ==
    /\ \A j \in 1..Len(s) : Nesting(s, j) >= 0
    /\ Nesting(s, Len(s)) = 0

RECURSIVE Height(_)
Height(its) ==
    IF its = <<>> THEN 0
    ELSE 1 + Max({Height(its[i].children) : i \in 1..Len(its)})

\* C1: parseInput applied to the grammar rendering of a forest whose names are
\* non-empty, trimmed and free of ',', '(' and ')' returns that forest; the
\* texts "a, b(c, d), e" and "x(y(z))" yield the documented forests.
C1_RoundTrip ==
    /\ (origin # <<>> /\ pc # "parse") => pc # "threw"
    /\ (origin # <<>> /\ pc = "parsed") => items = origin[1]
    /\ (input = TextABCDE /\ pc # "parse") =>
          /\ pc # "threw"
          /\ pc = "parsed" => items = <<Leaf(<<"a">>), Node(<<"b">>, <<Leaf(<<"c">>), Leaf(<<"d">>)>>), Leaf(<<"e">>)>>
    /\ (input = TextXYZ /\ pc # "parse") =>
          /\ pc # "threw"
          /\ pc = "parsed" => items = <<Node(<<"x">>, <<Node(<<"y">>, <<Leaf(<<"z">>)>>)>>)>>

C1_Witness ==
    /\ pc = "parsed" /\ origin # <<>>
    /\ \E i \in 1..Len(items) : \E j \in 1..Len(items) :
          i < j /\ ~items[i].leaf /\ items[i].children # <<>>

\* C2 (as claimed): parseInput never raises a failure, whatever the text.
C2_NeverFails == pc # "threw"

\* the '(' at k opens the top-level group that the last character of s closes
IsFinalGroup(s, k) ==
    /\ s[k] = "(" /\ s[Len(s)] = ")"
    /\ \A j \in 1..(k - 1) : Nesting(s, j) >= 0
    /\ Nesting(s, k - 1) = 0
    /\ \A j \in k..(Len(s) - 1) : Nesting(s, j) >= 1
    /\ Nesting(s, Len(s)) = 0
\* no name stands between the previous ',' or ')' (or the start) and the '(' at k
Unnamed(s, k) ==
    LET pre == Trim(SubSeq(s, 1, k - 1))
    IN  pre = <<>> \/ pre[Len(pre)] \in {",", ")"}

\* C3 (as claimed): when a top-level group with no name before its '(' closes,
\* its recursively parsed contents replace the whole result built so far,
\* whatever was emitted before it; "(" + s + ")" parses to what s parses to.
C3_UnnamedGroupReplacesAll ==
    Ended =>
        \A k \in 1..Len(input) :
            (/\ IsFinalGroup(input, k) /\ Unnamed(input, k)
             /\ ~ParseInput(SubSeq(input, 1, k - 1)).threw
             /\ ~ParseInput(SubSeq(input, k + 1, Len(input) - 1)).threw)
            => Outcome = ParseInput(SubSeq(input, k + 1, Len(input) - 1))

InsertAt(s, p, c) == SubSeq(s, 1, p) \o <<c>> \o SubSeq(s, p + 1, Len(s))
\* the places at the start, at the end and next to a delimiter
Gaps(s) ==
    {p \in 0..Len(s) : p = 0 \/ p = Len(s) \/ s[p] \in Delimiters \/ s[p + 1] \in Delimiters}
SameWithWhiteSpace(s) ==
    \A p \in Gaps(s) : \A w \in WhiteSpace : ParseInput(InsertAt(s, p, w)) = Outcome

\* C4 (as claimed): for every text, white space inserted or deleted at the
\* start, at the end or next to a ',', '(' or ')' leaves the parsed sequence
\* the same.
C4_WhiteSpaceAnyText == Ended => SameWithWhiteSpace(input)

\* C4 (amended): for every text whose parentheses are well nested, white
\* space inserted or deleted at the start, at the end or next to a ',', '('
\* or ')' leaves the outcome of parseInput the same: the same Item sequence,
\* or the failure of C2 in both.
C4_WhiteSpaceWellNested == (Ended /\ WellNested(input)) => SameWithWhiteSpace(input)

C4_Witness ==
    /\ pc = "parsed" /\ WellNested(input)
    /\ \E i \in 1..Len(input) : input[i] \in WhiteSpace
    /\ \E i \in 1..Len(input) : input[i] = "("
    /\ \E i \in 1..Len(input) : input[i] = ","
    /\ \E i \in 1..Len(items) : ~items[i].leaf /\ Len(items[i].children) >= 2

RECURSIVE NamesTrimmed(_)
NamesTrimmed(its) ==
    \A i \in 1..Len(its) :
        /\ its[i].name # <<>>
        /\ its[i].name[1] \notin WhiteSpace
        /\ its[i].name[Len(its[i].name)] \notin WhiteSpace
        /\ NamesTrimmed(its[i].children)

\* the non-empty trimmed pieces between the commas of s, as Leaves
RECURSIVE Pieces(_)
Pieces(s) ==
    LET commas == {i \in 1..Len(s) : s[i] = ","}
        cut == IF commas = {} THEN Len(s) + 1 ELSE Min(commas)
        first == Trim(SubSeq(s, 1, cut - 1))
        rest == IF cut > Len(s) THEN <<>> ELSE Pieces(SubSeq(s, cut + 1, Len(s)))
    IN  (IF first = <<>> THEN <<>> ELSE <<Leaf(first)>>) \o rest

\* C5: every name of every Item returned, at every depth, is non-empty and
\* has no white space at either end; leading, trailing and repeated commas
\* add no Item ("a,,b" yields a and b), and the empty text yields no Item.
C5_NamesTrimmedNoEmpty ==
    pc = "parsed" =>
        /\ NamesTrimmed(items)
        /\ (\A i \in 1..Len(input) : input[i] \notin {"(", ")"}) => items = Pieces(input)
        /\ input = <<>> => items = <<>>
        /\ input = TextACommaCommaB => items = <<Leaf(<<"a">>), Leaf(<<"b">>)>>

C5_Witness ==
    /\ pc = "parsed"
    /\ Len(input) >= 2 /\ input[1] = "," /\ input[Len(input)] = ","
    /\ \E i \in 1..(Len(input) - 1) : input[i] = "," /\ input[i + 1] = ","
    /\ items # <<>>

RECURSIVE SortedEverywhere(_)
SortedEverywhere(its) ==
    /\ \A i \in 1..(Len(its) - 1) : LocaleCompare(its[i].name, its[i + 1].name) <= 0
    /\ \A i \in 1..Len(its) : SortedEverywhere(its[i].children)

ShippedSorted ==
    <<Leaf(<<"e", "m", "a", "i", "l">>), Leaf(<<"e", "x", "t", "e", "r", "n", "a", "l", "I", "d">>), Leaf(<<"i", "d">>), Leaf(<<"n", "a", "m", "e">>),
      Node(<<"t", "y", "p", "e">>, <<Node(<<"c", "u", "s", "t", "o", "m", "F", "i", "e", "l", "d", "s">>, <<Leaf(<<"c", "1">>), Leaf(<<"c", "2">>), Leaf(<<"c", "3">>)>>), Leaf(<<"i", "d">>), Leaf(<<"n", "a", "m", "e">>)>>)>>

\* C6: after sortItems returns, the sequence and the children of every Node
\* at every depth are in non-decreasing order of name; the forest
\* b(z, a), a becomes a, b(a, z), and the shipped input sorts as documented.
C6_SortedAtEveryDepth ==
    pc = "sorted" =>
        /\ SortedEverywhere(items)
        /\ origin = <<ForestBZA>> => items = <<Leaf(<<"a">>), Node(<<"b">>, <<Leaf(<<"a">>), Leaf(<<"z">>)>>)>>
        /\ input = TextShipped => items = ShippedSorted

C6_Witness ==
    /\ pc = "sorted" /\ sorts = 1 /\ origin # <<>>
    /\ Len(items) >= 2
    /\ items[1] # origin[1][1]
    /\ \E i \in 1..Len(items) : \E j \in 1..Len(origin[1]) :
          /\ Len(items[i].children) >= 2
          /\ origin[1][j].name = items[i].name
          /\ origin[1][j].children # items[i].children

\* C7: a second sortItems call made directly after a first leaves the
\* sequence and every nested children sequence as the first call left them.
C7_SortIdempotent ==
    [][(pc = "sorted" /\ pc' = "sorted" /\ sorts' = sorts + 1) => items' = items]_vars

C7_Witness ==
    /\ pc = "sorted" /\ sorts = 2
    /\ \E i \in 1..(Len(items) - 1) :
          /\ items[i].name = items[i + 1].name
          /\ items[i] # items[i + 1]

RECURSIVE CountItems(_)
CountItems(its) ==
    IF its = <<>> THEN 0
    ELSE 1 + CountItems(Head(its).children) + CountItems(Tail(its))

\* the Items in pre-order, each with its nesting depth
RECURSIVE PreOrder(_, _)
PreOrder(its, d) ==
    IF its = <<>> THEN <<>>
    ELSE <<[depth |-> d, name |-> Head(its).name]>>
         \o PreOrder(Head(its).children, d + 1)
         \o PreOrder(Tail(its), d)

\* C8: printItems(items, 0) writes one line per Item over all depths, in
\* pre-order, and the line of an Item at depth d is 2*d spaces, "- " and
\* the Item's name.
C8_OneLinePerItem ==
    pc = "printed" =>
        LET po == PreOrder(items, 0)
        IN  /\ Len(out) = CountItems(items)
            /\ Len(out) = Len(po)
            /\ \A k \in 1..Len(po) :
                  /\ Len(out[k]) = 2 * po[k].depth + 2 + Len(po[k].name)
                  /\ \A i \in 1..(2 * po[k].depth) : out[k][i] = " "
                  /\ out[k][2 * po[k].depth + 1] = "-"
                  /\ out[k][2 * po[k].depth + 2] = " "
                  /\ SubSeq(out[k], 2 * po[k].depth + 3, Len(out[k])) = po[k].name

C8_Witness ==
    /\ pc = "printed"
    /\ Height(items) >= 3
    /\ \E k \in 1..(Len(out) - 1) :
          /\ Len(out[k]) > 5
          /\ SubSeq(out[k], 1, 5) = <<" ", " ", " ", " ", "-">>
          /\ out[k + 1][1] = "-"

\* a recursive call returns to its caller
Returning == pc = "parse" /\ Len(stack) > 1 /\ AtEnd(Top)
LastNode(its) == Max({i \in 1..Len(its) : ~its[i].leaf})

\* C9 (as claimed): when a ')' returns depth to 0, the recursively parsed
\* children become the children of the most recently emitted Node, also when
\* Leaves were emitted after that Node, and no other Item changes.
C9_AttachToLastNode ==
    [][(Returning /\ \E i \in 1..Len(stack[Len(stack) - 1].items) :
                        ~stack[Len(stack) - 1].items[i].leaf)
       => /\ pc' = "parse"
          /\ Len(stack') = Len(stack) - 1
          /\ stack'[Len(stack')].items =
                [stack[Len(stack) - 1].items
                    EXCEPT ![LastNode(stack[Len(stack) - 1].items)].children = Finish(Top)]
      ]_vars

\* every caller waiting for a recursive call holds the whole group, from its
\* '(' to the ')' that closes it, and passed on what lies between them
GroupInBuffer ==
    \A k \in 1..(Len(stack) - 1) :
        LET b == stack[k].buffer
        IN  /\ stack[k].depth = 0
            /\ Len(b) >= 2 /\ b[1] = "(" /\ b[Len(b)] = ")"
            /\ \A j \in 1..(Len(b) - 1) : Nesting(b, j) >= 1
            /\ Nesting(b, Len(b)) = 0
            /\ stack[k + 1].input = SubSeq(b, 2, Len(b) - 1)
            /\ Len(stack[k + 1].input) < Len(stack[k].input)

\* C10: on every text, balanced or not, whenever a ')' brings depth to 0 the
\* buffer begins with the '(' and ends with the ')' of the group, so slice(1, -1)
\* removes exactly these two; the text passed to the recursive call is
\* strictly shorter than the caller's; and parseInput comes to an end.
C10_GroupParensAndTermination == [](pc = "parse" => GroupInBuffer) /\ <>(pc # "parse")

C10_Witness ==
    /\ pc = "parse" /\ Len(stack) >= 2
    /\ Len(input) >= 1 /\ Nesting(input, 1) < 0
====
